---- MODULE Spec2Model ----
(***************************************************************************)
(* Hybrid compliance pipeline: Layer 1 (rule engine), Layer 2 (semantic    *)
(* similarity engine), Layer 3 (reasoning engine), CIA validator, audit    *)
(* risk predictor and the orchestrator HybridCompliancePipeline.run.       *)
(*                                                                         *)
(* Conventions of the model                                                *)
(*  - A text is the sequence of its words; Python's `kw in text` is        *)
(*    containment of a contiguous run of words (matches inside a word are  *)
(*    outside the model).  " ".join is concatenation.                      *)
(*  - Scores are fixed-point integers in hundredths (80.0 is 8000), the    *)
(*    precision round(x, 2) leaves.  Cosine similarities are integers in   *)
(*    ten-thousandths (0.70 is 7000), the precision round(x, 4) leaves.    *)
(*  - A Python None is the string "None".                                  *)
(***************************************************************************)
EXTENDS Integers, Sequences, FiniteSets, TLC

\* ------------------------------------------------------------------ bounds
MaxClauses == 3
MaxFrameworks == 2
MaxEncodeCalls == 2
MaxCalls == 2

\* ------------------------------------------------------------- arithmetic
Min(a, b) == IF a <= b THEN a ELSE b
Max(a, b) == IF a >= b THEN a ELSE b

\* floor(n / d) for d > 0 and any integer n
FloorDiv(n, d) == IF n >= 0 THEN n \div d ELSE -((-n + d - 1) \div d)

\* round(n / d) to the nearest integer, an exact tie going to the even
\* neighbour (Python's round on a value that is exactly representable)
RoundDiv(n, d) ==
    LET q == FloorDiv(n, d)
        r == n - q * d
    IN  IF 2 * r < d THEN q
        ELSE IF 2 * r > d THEN q + 1
        ELSE IF q % 2 = 0 THEN q ELSE q + 1

\* The values round(n / d) can take.  The quotient is a binary float: on an
\* exact decimal tie the float lies just above or just below it, so either
\* neighbour can come out.
RoundChoices(n, d) ==
    LET q == FloorDiv(n, d)
        r == n - q * d
    IN  IF 2 * r < d THEN {q}
        ELSE IF 2 * r > d THEN {q + 1}
        ELSE {q, q + 1}

RECURSIVE SumSeq(_)
SumSeq(s) == IF s = <<>> THEN 0 ELSE Head(s) + SumSeq(Tail(s))

RECURSIVE SelectSeqIdx(_, _, _)
\* the subsequence of s at the indices i >= from with Keep[i]
SelectSeqIdx(s, Keep, from) ==
    IF from > Len(s) THEN <<>>
    ELSE (IF Keep[from] THEN <<s[from]>> ELSE <<>>) \o SelectSeqIdx(s, Keep, from + 1)

\* s[:n]
Take(s, n) == SubSeq(s, 1, Min(n, Len(s)))

Range(s) == {s[i] : i \in DOMAIN s}

\* ------------------------------------------------------------------ texts
\* str.lower() on the words that carry capitals in the sample documents
LowerWord(w) ==
    CASE w = "Security" -> "security"
      [] w = "Risk" -> "risk"
      [] w = "Backup" -> "backup"
      [] OTHER -> w

Lower(text) == [i \in DOMAIN text |-> LowerWord(text[i])]

\* kw in text
Contains(text, kw) ==
    \E i \in 0..(Len(text) - Len(kw)) :
        \A j \in 1..Len(kw) : text[i + j] = kw[j]

RECURSIVE JoinTexts(_)
\* " ".join(texts)
JoinTexts(texts) ==
    IF texts = <<>> THEN <<>> ELSE Head(texts) \o JoinTexts(Tail(texts))

\* len(word) of the words the control descriptions use
WordLen(w) ==
    CASE w \in {"to", "of"} -> 2
      [] w \in {"use", "the", "and", "dpo", "for"} -> 3
      [] w \in {"data", "risk", "plan"} -> 4
      [] OTHER -> 8

\* ------------------------------------------------- the documents' clauses
\* The clauses a document is drawn from.  sim is what the embedding model and
\* cosine_similarity give for the clause against each control of a framework
\* (one entry per control, in catalog order).
ClausePool ==
    << [text |-> <<"Security", "policy", "may", "use", "encryption">>,
        sim  |-> [iso27001 |-> <<7000, 4499, 1200>>, gdpr |-> <<4500, 4500>>]],
       [text |-> <<"risk", "assessment", "and", "backup">>,
        sim  |-> [iso27001 |-> <<3000, 4500, 9100>>, gdpr |-> <<4499, -250>>]],
       [text |-> <<"the", "dpo">>,
        sim  |-> [iso27001 |-> <<-100, 4499, 2000>>, gdpr |-> <<1000, 7000>>]],
       [text |-> <<"audit", "trail", "could", "show", "quality", ".">>,
        sim  |-> [iso27001 |-> <<4400, 4400, 6999>>, gdpr |-> <<-250, -4400>>]] >>

ClauseIds == DOMAIN ClausePool

\* c.get("text", "")
ClauseText(c) == ClausePool[c].text

\* full_text as the caller gives it: None (run joins the clauses) or a text
FullTexts ==
    {[given |-> FALSE, text |-> <<>>],
     [given |-> TRUE,
      text |-> <<"information", "security", "policy", "statement", "with", "data", "access">>]}

Frameworks == {"iso27001", "gdpr", "foo"}
Pillars == <<"confidentiality", "integrity", "availability">>
PillarSet == Range(Pillars)

\* --------------------------------------------------- Layer 1: rule engine
\* The catalogs, cut to the listed sections (clause ids as in the source).
ISO27001_REQUIRED_SECTIONS ==
    << [clause |-> "5.2", cia_pillar |-> "confidentiality",
        keywords |-> << <<"information", "security", "policy">>,
                        <<"security", "policy">>, <<"policy", "statement">> >>],
       [clause |-> "6.1.1", cia_pillar |-> "None",
        keywords |-> << <<"risk">>, <<"risks", "and", "opportunities">>,
                        <<"address", "risks">> >>],
       [clause |-> "6.1.2", cia_pillar |-> "integrity",
        keywords |-> << <<"risk", "assessment">>,
                        <<"risk", "assessment", "methodology">>,
                        <<"risk", "criteria">>, <<"risk", "analysis">>,
                        <<"risk", "evaluation">>, <<"likelihood">>, <<"impact">> >>],
       [clause |-> "7.1", cia_pillar |-> "None",
        keywords |-> << <<"resources">>, <<"resource", "allocation">>, <<"budget">> >>],
       [clause |-> "8.1", cia_pillar |-> "None",
        keywords |-> << <<"operational", "planning">>, <<"operational", "control">> >>],
       [clause |-> "A.10", cia_pillar |-> "confidentiality",
        keywords |-> << <<"cryptography">>, <<"encryption">>,
                        <<"cryptographic", "controls">>, <<"key", "management">> >>],
       [clause |-> "A.17", cia_pillar |-> "availability",
        keywords |-> << <<"business", "continuity">>, <<"disaster", "recovery">>,
                        <<"continuity", "plan">>, <<"bcp">>, <<"drp">>, <<"recovery">> >>] >>

GDPR_REQUIRED_SECTIONS ==
    << [clause |-> "Art.15", cia_pillar |-> "availability",
        keywords |-> << <<"right", "of", "access">>,
                        <<"subject", "access", "request">>, <<"data", "access">> >>],
       [clause |-> "Art.32", cia_pillar |-> "confidentiality",
        keywords |-> << <<"security", "of", "processing">>, <<"technical", "measures">>,
                        <<"organisational", "measures">>, <<"pseudonymisation">>,
                        <<"encryption">> >>],
       [clause |-> "Art.37", cia_pillar |-> "None",
        keywords |-> << <<"data", "protection", "officer">>, <<"dpo">> >>] >>

\* self.framework_sections.get(framework, [])
FRAMEWORK_SECTIONS(framework) ==
    CASE framework = "iso27001" -> ISO27001_REQUIRED_SECTIONS
      [] framework = "gdpr" -> GDPR_REQUIRED_SECTIONS
      [] OTHER -> <<>>

EmptyFlags == [p \in PillarSet |-> <<>>]

\* _empty_result scoring a framework without required sections as complete
RuleEngineEmptyResultFullScore(framework) ==
    [framework |-> framework, structural_score |-> 10000, total_required |-> 0,
     present |-> 0, partial |-> 0, missing |-> 0,
     section_results |-> <<>>, cia_structural_flags |-> EmptyFlags]

RuleEngineEmptyResult(framework) ==
    [framework |-> framework, structural_score |-> 0, total_required |-> 0,
     present |-> 0, partial |-> 0, missing |-> 0,
     section_results |-> <<>>, cia_structural_flags |-> EmptyFlags]

\* the status with a ratio of exactly 0.5 taken as partial
SectionStatusHalfIsPartial(nMatched, nKeywords) ==
    IF nKeywords > 0 /\ 2 * nMatched > nKeywords THEN "present"
    ELSE IF nKeywords > 0 /\ nMatched > 0 THEN "partial"
    ELSE "missing"

\* the status of one required section: ratio >= 0.5, ratio > 0, else
SectionStatus(nMatched, nKeywords) ==
    IF nKeywords > 0 /\ 2 * nMatched >= nKeywords THEN "present"
    ELSE IF nKeywords > 0 /\ nMatched > 0 THEN "partial"
    ELSE "missing"

\* one entry of section_results
SectionResult(req, text_lower, all_clause_text) ==
    LET matched_kw == SelectSeqIdx(req.keywords,
                         [i \in DOMAIN req.keywords |->
                             Contains(text_lower, req.keywords[i])
                             \/ Contains(all_clause_text, req.keywords[i])], 1)
        n == Len(req.keywords)
    IN  [clause |-> req.clause,
         status |-> SectionStatus(Len(matched_kw), n),
         matched_keywords |-> Len(matched_kw),
         \* round(ratio * 100, 1), kept in hundredths
         keyword_coverage |-> IF n > 0 THEN 10 * RoundDiv(1000 * Len(matched_kw), n) ELSE 0,
         cia_pillar |-> req.cia_pillar]

\* the counters of analyze with the increment of partial left out
CountStatusPartialDropped(section_results, status) ==
    IF status = "partial" THEN 0
    ELSE Cardinality({i \in DOMAIN section_results : section_results[i].status = status})

CountStatus(section_results, status) ==
    Cardinality({i \in DOMAIN section_results : section_results[i].status = status})

\* structural_score counting a partial section as a present one
StructuralScorePartialAsPresent(present, partial, total) ==
    IF total > 0 THEN RoundDiv((present + partial) * 10000, total) ELSE 0

\* round(((present * 1.0 + partial * 0.5) / total) * 100, 2) if total else 0
StructuralScore(present, partial, total) ==
    IF total > 0 THEN RoundDiv((2 * present + partial) * 10000, 2 * total) ELSE 0

\* RuleBasedEngine.analyze(full_text, clauses, framework)
RuleEngineAnalyze(full_text, clauses, framework) ==
    LET required == FRAMEWORK_SECTIONS(framework)
        text_lower == Lower(full_text)
        all_clause_text == Lower(JoinTexts([i \in DOMAIN clauses |-> ClauseText(clauses[i])]))
        section_results == [i \in DOMAIN required |->
                               SectionResult(required[i], text_lower, all_clause_text)]
        present == CountStatus(section_results, "present")
        partial == CountStatus(section_results, "partial")
        missing == CountStatus(section_results, "missing")
        flagged(p) == SelectSeqIdx([i \in DOMAIN required |-> required[i].clause],
                          [i \in DOMAIN required |->
                              required[i].cia_pillar = p
                              /\ section_results[i].status = "missing"], 1)
    IN  IF required = <<>> THEN RuleEngineEmptyResult(framework)
        ELSE [framework |-> framework,
              structural_score |-> StructuralScore(present, partial, Len(required)),
              total_required |-> Len(required),
              present |-> present, partial |-> partial, missing |-> missing,
              section_results |-> section_results,
              cia_structural_flags |-> [p \in PillarSet |-> flagged(p)]]

\* ------------------------------------------- Layer 2: semantic engine
STRONG_THRESHOLD == 7000
PARTIAL_THRESHOLD == 4500

\* self._framework_controls after _load_frameworks: the controls of the
\* framework data files (sample catalogs; unknown keys have no entry)
FRAMEWORK_CONTROLS(framework) ==
    CASE framework = "iso27001" ->
            << [id |-> "A.10.1", priority |-> "High",
                description |-> <<"use", "encryption", "to", "protect", "data">>],
               [id |-> "A.12.3", priority |-> "Medium",
                description |-> <<"Backup", "copies", "of", "information">>],
               [id |-> "A.17.1", priority |-> "Critical",
                description |-> <<"plan", "for", "business", "continuity">>] >>
      [] framework = "gdpr" ->
            << [id |-> "Art.32", priority |-> "High",
                description |-> <<"encryption", "of", "personal", "data">>],
               [id |-> "Art.37", priority |-> "Medium",
                description |-> <<"the", "dpo", "and", "the", "officer", "to", "contact">>] >>
      [] OTHER -> <<>>

\* _ensure_model that leaves a model behind when loading fails
EnsureModelIgnoresFailure(model, loadable) == "loaded"

\* _ensure_model: the model after the call (loadable: the import and the
\* SentenceTransformer constructor succeed)
EnsureModel(model, loadable) ==
    IF model # "None" THEN model
    ELSE IF loadable THEN "loaded" ELSE "None"

\* _model.encode(texts of the framework's controls): what the array holds
EncodeControls(framework) ==
    [of |-> framework, len |-> Len(FRAMEWORK_CONTROLS(framework))]

\* np.array([])
NoEmbeddings == [of |-> "None", len |-> 0]

\* _get_control_embeddings that answers a cached framework with no array
GetControlEmbeddingsDropsCached(cache, model, framework) ==
    IF framework \in DOMAIN cache
        THEN [embeddings |-> NoEmbeddings, cache |-> cache, encoded |-> FALSE]
    ELSE IF model = "None"
        THEN [embeddings |-> NoEmbeddings, cache |-> cache, encoded |-> FALSE]
    ELSE IF FRAMEWORK_CONTROLS(framework) = <<>>
        THEN [embeddings |-> NoEmbeddings, cache |-> cache, encoded |-> FALSE]
    ELSE [embeddings |-> EncodeControls(framework),
          cache |-> cache @@ (framework :> EncodeControls(framework)),
          encoded |-> TRUE]

\* _get_control_embeddings that encodes without storing the array
GetControlEmbeddingsNotStored(cache, model, framework) ==
    IF framework \in DOMAIN cache
        THEN [embeddings |-> cache[framework], cache |-> cache, encoded |-> FALSE]
    ELSE IF model = "None"
        THEN [embeddings |-> NoEmbeddings, cache |-> cache, encoded |-> FALSE]
    ELSE IF FRAMEWORK_CONTROLS(framework) = <<>>
        THEN [embeddings |-> NoEmbeddings, cache |-> cache, encoded |-> FALSE]
    ELSE [embeddings |-> EncodeControls(framework), cache |-> cache, encoded |-> TRUE]

\* _get_control_embeddings: the array returned, the cache after the call,
\* and whether the call encoded the control descriptions (line 91)
GetControlEmbeddings(cache, model, framework) ==
    IF framework \in DOMAIN cache
        THEN [embeddings |-> cache[framework], cache |-> cache, encoded |-> FALSE]
    ELSE IF model = "None"
        THEN [embeddings |-> NoEmbeddings, cache |-> cache, encoded |-> FALSE]
    ELSE IF FRAMEWORK_CONTROLS(framework) = <<>>
        THEN [embeddings |-> NoEmbeddings, cache |-> cache, encoded |-> FALSE]
    ELSE [embeddings |-> EncodeControls(framework),
          cache |-> cache @@ (framework :> EncodeControls(framework)),
          encoded |-> TRUE]

\* sim_matrix[i][j]: clause c against row j of the control embeddings
SimMatrix(c, embeddings, j) == ClausePool[c].sim[embeddings.of][j]

RECURSIVE ArgMax(_, _, _)
\* np.argmax over f[1..n]: the first index of the maximum
ArgMax(f, n, best) ==
    IF n = 0 THEN best
    ELSE ArgMax(f, n - 1, IF f[n] >= f[best] THEN n ELSE best)

RECURSIVE MaxOf(_)
MaxOf(S) == LET x == CHOOSE y \in S : TRUE
            IN  IF S = {x} THEN x ELSE Max(x, MaxOf(S \ {x}))

\* the classification with the thresholds themselves excluded
ComplianceLevelStrict(best_sim) ==
    IF best_sim > STRONG_THRESHOLD THEN "strong"
    ELSE IF best_sim > PARTIAL_THRESHOLD THEN "partial"
    ELSE "weak"

\* the classification with the weak branch giving a level that is not counted
ComplianceLevelWeakUncounted(best_sim) ==
    IF best_sim >= STRONG_THRESHOLD THEN "strong"
    ELSE IF best_sim >= PARTIAL_THRESHOLD THEN "partial"
    ELSE "none"

ComplianceLevel(best_sim) ==
    IF best_sim >= STRONG_THRESHOLD THEN "strong"
    ELSE IF best_sim >= PARTIAL_THRESHOLD THEN "partial"
    ELSE "weak"

CountLevel(clause_matches, level) ==
    Cardinality({i \in DOMAIN clause_matches : clause_matches[i].compliance_level = level})

MissingControl(ctrl) == [control_id |-> ctrl.id, priority |-> ctrl.priority]

\* round(((strong * 1.0 + partial * 0.5) / total) * 100, 2) if total else 0
SemanticScore(strong, partial, total) ==
    IF total > 0 THEN RoundDiv((2 * strong + partial) * 10000, 2 * total) ELSE 0

SemanticEmptyResult(framework) ==
    [framework |-> framework, semantic_score |-> 0,
     strong_count |-> 0, partial_count |-> 0, weak_count |-> 0, total_clauses |-> 0,
     matched_controls |-> 0, total_controls |-> 0, compliance_percentage |-> 0,
     clause_matches |-> <<>>, control_coverage |-> <<>>, missing_controls |-> <<>>,
     note |-> FALSE]

\* _fallback_analysis: a control is matched when one of the first six words
\* of its description, longer than 3 characters, occurs in the clauses' text
FallbackMatched(ctrl, all_text) ==
    LET keywords == Take(Lower(ctrl.description), 6)
    IN  \E k \in DOMAIN keywords :
            WordLen(keywords[k]) > 3 /\ Contains(all_text, <<keywords[k]>>)

FallbackAnalysis(clauses, framework) ==
    LET controls == FRAMEWORK_CONTROLS(framework)
        all_text == Lower(JoinTexts([i \in DOMAIN clauses |-> ClauseText(clauses[i])]))
        matched_ids == {controls[j].id : j \in {k \in DOMAIN controls :
                                                  FallbackMatched(controls[k], all_text)}}
        missing == SelectSeqIdx([j \in DOMAIN controls |-> MissingControl(controls[j])],
                       [j \in DOMAIN controls |-> controls[j].id \notin matched_ids], 1)
        total == IF Len(clauses) # 0 THEN Len(clauses) ELSE 1
        score == RoundDiv(Cardinality(matched_ids) * 10000,
                          IF Len(controls) # 0 THEN Len(controls) ELSE 1)
    IN  [framework |-> framework, semantic_score |-> score,
         strong_count |-> 0, partial_count |-> Cardinality(matched_ids),
         weak_count |-> total - Cardinality(matched_ids), total_clauses |-> total,
         matched_controls |-> Cardinality(matched_ids), total_controls |-> Len(controls),
         compliance_percentage |-> score,
         clause_matches |-> <<>>, control_coverage |-> <<>>, missing_controls |-> missing,
         note |-> TRUE]

\* the coverage of control j taken from the first clause alone
ControlMaxOfFirstClause(clauses, embeddings, j) == SimMatrix(clauses[1], embeddings, j)

\* np.max(sim_matrix, axis=0)[j]: the best similarity any clause has with
\* control j
ControlMax(clauses, embeddings, j) ==
    MaxOf({SimMatrix(clauses[i], embeddings, j) : i \in DOMAIN clauses})

\* the embedding path of analyze (lines 131-208)
EmbeddingAnalysis(clauses, framework, embeddings) ==
    LET controls == FRAMEWORK_CONTROLS(framework)
        row(i) == [j \in 1..embeddings.len |-> SimMatrix(clauses[i], embeddings, j)]
        best_idx(i) == ArgMax(row(i), embeddings.len, 1)
        clause_matches ==
            [i \in DOMAIN clauses |->
                [clause_text |-> clauses[i],
                 best_control_id |-> controls[best_idx(i)].id,
                 similarity |-> row(i)[best_idx(i)],
                 compliance_level |-> ComplianceLevel(row(i)[best_idx(i)])]]
        control_max == [j \in DOMAIN controls |-> ControlMax(clauses, embeddings, j)]
        matched_ids == {controls[j].id : j \in {k \in DOMAIN controls :
                                                  control_max[k] >= PARTIAL_THRESHOLD}}
        missing == SelectSeqIdx([j \in DOMAIN controls |-> MissingControl(controls[j])],
                       [j \in DOMAIN controls |-> controls[j].id \notin matched_ids], 1)
        strong == CountLevel(clause_matches, "strong")
        partial == CountLevel(clause_matches, "partial")
        weak == CountLevel(clause_matches, "weak")
        total == Len(clauses)
    IN  [framework |-> framework,
         semantic_score |-> SemanticScore(strong, partial, total),
         strong_count |-> strong, partial_count |-> partial, weak_count |-> weak,
         total_clauses |-> total,
         matched_controls |-> Cardinality(matched_ids), total_controls |-> Len(controls),
         compliance_percentage |->
             IF Len(controls) > 0
             THEN RoundDiv(Cardinality(matched_ids) * 10000, Len(controls)) ELSE 0,
         clause_matches |-> clause_matches,
         control_coverage |-> [j \in DOMAIN controls |->
                                  [control_id |-> controls[j].id, score |-> control_max[j]]],
         missing_controls |-> missing,
         note |-> FALSE]

\* SemanticSimilarityEngine.analyze(clauses, framework): the result, the
\* engine's _model and _framework_embeddings after the call, and whether the
\* call encoded the framework's control descriptions
SemanticAnalyze(clauses, framework, model, cache, loadable) ==
    LET model1 == EnsureModel(model, loadable)
        got == GetControlEmbeddings(cache, model1, framework)
        result == IF model1 = "None" \/ got.embeddings.len = 0
                      THEN FallbackAnalysis(clauses, framework)
                  ELSE IF clauses = <<>>
                      THEN SemanticEmptyResult(framework)
                  ELSE EmbeddingAnalysis(clauses, framework, got.embeddings)
    IN  [result |-> result, model |-> model1, cache |-> got.cache,
         encoded |-> got.encoded]

\* ------------------------------------------------------ CIA validator
\* self.cia_keywords, cut to the listed keywords
CIA_KEYWORDS(category) ==
    CASE category = "confidentiality" ->
            << <<"confidential">>, <<"privacy">>, <<"access", "control">>,
               <<"encryption">>, <<"personal", "data">> >>
      [] category = "integrity" ->
            << <<"integrity">>, <<"audit", "trail">>, <<"quality">> >>
      [] category = "availability" ->
            << <<"availability">>, <<"backup">>, <<"disaster", "recovery">> >>

\* classify_clause_cia: cia_scores, the keyword hits of each category
CiaScores(clause_text) ==
    [p \in PillarSet |->
        Cardinality({k \in DOMAIN CIA_KEYWORDS(p) :
                        Contains(Lower(clause_text), CIA_KEYWORDS(p)[k])})]

\* the primary category with ties going to the last category
PrimaryCategoryLastOnTie(clause_text) ==
    LET sc == CiaScores(clause_text)
        best == MaxOf({sc[p] : p \in PillarSet})
    IN  Pillars[MaxOf({i \in 1..3 : sc[Pillars[i]] = best})]

\* max(cia_scores.items(), key=score)[0]: the first category, in the order
\* confidentiality, integrity, availability, with the highest score
PrimaryCategory(clause_text) ==
    LET sc == CiaScores(clause_text)
    IN  Pillars[ArgMax([i \in 1..3 |-> sc[Pillars[i]]], 3, 1)]

\* a * a <= d * 10^8, for 0 <= a < 2 * 10^8, without leaving 32 bits
SquareLeq(a, d) ==
    LET ah == a \div 10000
        al == a % 10000
        y == 2 * ah * al
        tail == (y % 10000) * 10000 + al * al
        h == ah * ah + (y \div 10000) + (tail \div 100000000)
    IN  h < d \/ (h = d /\ tail % 100000000 = 0)

RECURSIVE NormalizedStdDev(_, _, _)
\* round((std_dev / 47.14) * 100, 2) in hundredths, for the population
\* standard deviation std_dev = sqrt(dd) / 300 of three coverages whose
\* hundredths have dd = 3 * sum of squares - square of sum: the largest k in
\* lo..hi with (k - 1/2) * 14142 <= 10^4 * sqrt(dd)
NormalizedStdDev(dd, lo, hi) ==
    IF lo >= hi THEN lo
    ELSE LET mid == (lo + hi + 1) \div 2
         IN  IF SquareLeq((2 * mid - 1) * 7071, dd)
             THEN NormalizedStdDev(dd, mid, hi)
             ELSE NormalizedStdDev(dd, lo, mid - 1)

\* calculate_cia_balance_index
CalculateCiaBalanceIndex(cia_coverage) ==
    LET s == SumSeq([i \in 1..3 |-> cia_coverage[Pillars[i]]])
        q == SumSeq([i \in 1..3 |-> cia_coverage[Pillars[i]] * cia_coverage[Pillars[i]]])
    IN  10000 - NormalizedStdDev(3 * q - s * s, 0, 10001)

GetBalanceRating(balance_index) ==
    IF balance_index >= 8500 THEN "Excellent"
    ELSE IF balance_index >= 7000 THEN "Good"
    ELSE IF balance_index >= 5000 THEN "Fair"
    ELSE "Poor"

\* _identify_cia_imbalances: one entry per category outside 25..40 percent
IdentifyCiaImbalances(cia_coverage) ==
    LET entry(p) ==
            [category |-> p,
             type |-> IF cia_coverage[p] < 2500 THEN "under_covered" ELSE "over_covered",
             severity |-> IF cia_coverage[p] < 1500 THEN "High"
                          ELSE IF cia_coverage[p] < 2500 THEN "Medium" ELSE "Low"]
    IN  SelectSeqIdx([i \in 1..3 |-> entry(Pillars[i])],
                     [i \in 1..3 |-> cia_coverage[Pillars[i]] < 2500
                                     \/ cia_coverage[Pillars[i]] > 4000], 1)

\* _generate_cia_recommendations: the category each recommendation is about
\* ("balanced" for the well-balanced message)
GenerateCiaRecommendations(imbalances) ==
    LET under == SelectSeqIdx([i \in DOMAIN imbalances |-> imbalances[i].category],
                     [i \in DOMAIN imbalances |-> imbalances[i].type = "under_covered"], 1)
    IN  IF imbalances = <<>> THEN under \o <<"balanced">> ELSE under

\* classify_clause_cia of each clause of the pool: its primary_category
ClassifyClauseCia == [c \in ClauseIds |-> PrimaryCategory(ClauseText(c))]

ZeroCoverage == [p \in PillarSet |-> 0]

\* analyze_document_cia.  kind tells the keys the dict holds: "error" holds
\* error and cia_coverage only, "full" holds the analysis
AnalyzeDocumentCia(clauses) ==
    IF clauses = <<>>
    THEN [kind |-> "error", total_clauses |-> 0, cia_coverage |-> ZeroCoverage,
          cia_distribution |-> ZeroCoverage, cia_balance_index |-> 0,
          balance_rating |-> "None", imbalances |-> <<>>, recommendations |-> <<>>]
    ELSE LET primary == [i \in DOMAIN clauses |-> ClassifyClauseCia[clauses[i]]]
             cia_distribution ==
                 [p \in PillarSet |-> Cardinality({i \in DOMAIN clauses : primary[i] = p})]
             total_clauses == Len(clauses)
             cia_coverage ==
                 [p \in PillarSet |-> RoundDiv(cia_distribution[p] * 10000, total_clauses)]
             balance_index == CalculateCiaBalanceIndex(cia_coverage)
             imbalances == IdentifyCiaImbalances(cia_coverage)
         IN  [kind |-> "full", total_clauses |-> total_clauses,
              cia_coverage |-> cia_coverage, cia_distribution |-> cia_distribution,
              cia_balance_index |-> balance_index,
              balance_rating |-> GetBalanceRating(balance_index),
              imbalances |-> imbalances,
              recommendations |-> GenerateCiaRecommendations(imbalances)]

\* cia_data = None
NoCia ==
    [kind |-> "None", total_clauses |-> 0, cia_coverage |-> ZeroCoverage,
     cia_distribution |-> ZeroCoverage, cia_balance_index |-> 0,
     balance_rating |-> "None", imbalances |-> <<>>, recommendations |-> <<>>]

\* ------------------------------------------- Layer 3: reasoning engine
RECURSIVE ReplaceAll(_, _, _)
\* text.replace(weak, strong)
ReplaceAll(text, weak, strong) ==
    IF Len(text) < Len(weak) THEN text
    ELSE IF SubSeq(text, 1, Len(weak)) = weak
        THEN strong \o ReplaceAll(SubSeq(text, Len(weak) + 1, Len(text)), weak, strong)
    ELSE <<Head(text)>> \o ReplaceAll(Tail(text), weak, strong)

\* the replacements of _rewrite_clause, in the order of the dict
Replacements ==
    << <<(<<"should">>), (<<"shall">>)>>,
       <<(<<"may">>), (<<"must">>)>>,
       <<(<<"could">>), (<<"shall">>)>>,
       <<(<<"might">>), (<<"must">>)>>,
       <<(<<"where", "possible">>), (<<"as", "a", "mandatory", "requirement">>)>>,
       <<(<<"if", "feasible">>), (<<"as", "a", "requirement">>)>>,
       <<(<<"efforts", "will", "be", "made">>), (<<"the", "organization", "shall", "ensure">>)>>,
       <<(<<"should", "consider">>), (<<"shall", "implement">>)>> >>

RECURSIVE ApplyReplacements(_, _)
ApplyReplacements(text, k) ==
    IF k > Len(Replacements) THEN text
    ELSE ApplyReplacements(ReplaceAll(text, Replacements[k][1], Replacements[k][2]), k + 1)

\* _rewrite_clause
RewriteClause(original) ==
    LET text == ApplyReplacements(original, 1)
    IN  IF text # <<>> /\ text[Len(text)] = "." THEN text ELSE text \o <<".">>

\* _calc_confidence without the flat bonus of 20
CalcConfidenceNoBonus(struct_score, sem_score, n_gaps) ==
    LET penalty == Min(n_gaps * 3, 30)
    IN  Max(0, Min(10000, RoundDiv(4 * struct_score + 4 * sem_score
                                   - 1000 * penalty, 10)))

\* _calc_confidence
CalcConfidence(struct_score, sem_score, n_gaps) ==
    LET penalty == Min(n_gaps * 3, 30)
    IN  Max(0, Min(10000, RoundDiv(4 * struct_score + 4 * sem_score
                                   + 20000 - 1000 * penalty, 10)))

\* the gaps analyze collects from both layers (lines 56-64)
StructuralMissing(structural_results) ==
    SelectSeqIdx(structural_results.section_results,
        [i \in DOMAIN structural_results.section_results |->
            structural_results.section_results[i].status \in {"missing", "partial"}], 1)

SemanticWeak(semantic_results) ==
    SelectSeqIdx(semantic_results.clause_matches,
        [i \in DOMAIN semantic_results.clause_matches |->
            semantic_results.clause_matches[i].compliance_level \in {"weak", "partial"}], 1)

\* _parse_llm_response keeping the number of the text as it is
ParseLlmResponseUnclamped(confidence) ==
    [reasoning_confidence |-> 100 * (IF confidence = -1 THEN 65 ELSE confidence),
     executive_summary |-> "llm_text",
     gap_explanations |-> <<[clause |-> "llm_text", status |-> "llm_text",
                             cia_impact |-> "None"]>>,
     improvement_suggestions |-> <<>>, rewritten_clauses |-> <<>>,
     cia_impact_summary |-> <<>>, source |-> "llm"]

\* _parse_llm_response.  confidence: the number after "confidence" in the
\* text, -1 when the text has none
ParseLlmResponse(confidence) ==
    [reasoning_confidence |-> 100 * Min(IF confidence = -1 THEN 65 ELSE confidence, 100),
     executive_summary |-> "llm_text",
     gap_explanations |-> <<[clause |-> "llm_text", status |-> "llm_text",
                             cia_impact |-> "None"]>>,
     improvement_suggestions |-> <<>>, rewritten_clauses |-> <<>>,
     cia_impact_summary |-> <<>>, source |-> "llm"]

\* _rule_based_from_context
RuleBasedFromContext ==
    [reasoning_confidence |-> 5000,
     executive_summary |-> "gaps_require_attention",
     gap_explanations |-> <<>>, improvement_suggestions |-> <<>>,
     rewritten_clauses |-> <<>>, cia_impact_summary |-> <<>>,
     source |-> "rule_based_fallback"]

\* the CIA impact summary from the structural flags alone
CiaImpactFlagsOnly(structural_results, cia_analysis) ==
    LET flags(p) == structural_results.cia_structural_flags[p]
    IN  [p \in PillarSet |->
            IF flags(p) # <<>>
                THEN [status |-> "at_risk", missing_clauses |-> flags(p)]
            ELSE [status |-> "covered", missing_clauses |-> <<>>]]

\* the CIA impact summary of _rule_based_reasoning (lines 239-263)
CiaImpact(structural_results, cia_analysis) ==
    LET flags(p) == structural_results.cia_structural_flags[p]
        low(p) == cia_analysis.kind # "None" /\ cia_analysis.cia_coverage[p] < 2500
    IN  [p \in PillarSet |->
            IF flags(p) # <<>>
                THEN [status |-> "at_risk", missing_clauses |-> flags(p)]
            ELSE IF low(p)
                THEN [status |-> "at_risk", missing_clauses |-> <<>>]
            ELSE [status |-> "covered", missing_clauses |-> <<>>]]

\* _rule_based_reasoning
RuleBasedReasoning(structural_results, semantic_results, cia_analysis) ==
    LET structural_missing == StructuralMissing(structural_results)
        semantic_weak == SemanticWeak(semantic_results)
        missing_controls == Take(semantic_results.missing_controls, 10)
        struct_score == structural_results.structural_score
        sem_score == semantic_results.semantic_score
        \* avg >= 80, avg >= 50, else
        exec_summary == IF struct_score + sem_score >= 16000 THEN "strong_alignment"
                        ELSE IF struct_score + sem_score >= 10000 THEN "moderate"
                        ELSE "significant_gaps"
        shown == Take(structural_missing, 6)
        gap_explanations ==
            [i \in DOMAIN shown |->
                [clause |-> shown[i].clause, status |-> shown[i].status,
                 cia_impact |-> shown[i].cia_pillar]]
        missing_titles ==
            Take(SelectSeqIdx([i \in DOMAIN structural_missing |-> structural_missing[i].clause],
                     [i \in DOMAIN structural_missing |->
                         structural_missing[i].status = "missing"], 1), 3)
        improvements ==
            (IF structural_results.missing > 0
                THEN <<[kind |-> "add_sections", items |-> missing_titles]>> ELSE <<>>)
            \o (IF semantic_results.weak_count > 3
                THEN <<[kind |-> "mandatory_language", items |-> <<>>]>> ELSE <<>>)
            \o (IF missing_controls # <<>>
                THEN <<[kind |-> "missing_controls",
                        items |-> [i \in DOMAIN Take(missing_controls, 3) |->
                                      missing_controls[i].control_id]]>> ELSE <<>>)
        weakest == Take(semantic_weak, 2)
        rewritten ==
            [i \in DOMAIN weakest |->
                [original |-> weakest[i].clause_text,
                 improved |-> RewriteClause(ClauseText(weakest[i].clause_text)),
                 matched_control |-> weakest[i].best_control_id]]
    IN  [reasoning_confidence |->
             CalcConfidence(struct_score, sem_score, Len(gap_explanations)),
         executive_summary |-> exec_summary,
         gap_explanations |-> gap_explanations,
         improvement_suggestions |-> improvements,
         rewritten_clauses |-> rewritten,
         cia_impact_summary |-> CiaImpact(structural_results, cia_analysis),
         source |-> "rule_based"]

\* LLMProvider.is_available: the value of the property and _is_loaded after
\* it.  load_ok: _load_model succeeds, should it be called
IsAvailable(provider, is_loaded, load_ok) ==
    IF provider = "none" THEN [available |-> FALSE, is_loaded |-> is_loaded]
    ELSE IF is_loaded THEN [available |-> TRUE, is_loaded |-> TRUE]
    ELSE [available |-> load_ok, is_loaded |-> load_ok]

\* _llm_reasoning whose except branch keeps the source of the LLM path
LlmReasoningSourceKept(raises, confidence) ==
    IF raises THEN [RuleBasedFromContext EXCEPT !.source = "llm"]
    ELSE ParseLlmResponse(confidence)

\* _llm_reasoning.  raises: llm_provider.generate raises (a timeout too)
LlmReasoning(raises, confidence) ==
    IF raises THEN RuleBasedFromContext ELSE ParseLlmResponse(confidence)

\* ReasoningEngine.analyze
ReasoningAnalyze(structural_results, semantic_results, cia_analysis, available, raises, confidence) ==
    IF available THEN LlmReasoning(raises, confidence)
    ELSE RuleBasedReasoning(structural_results, semantic_results, cia_analysis)

\* what generate answers: the confidence its text states (-1: none)
LlmConfidences == {-1, 150}

\* ------------------------------------------------ audit risk predictor
\* model.predict_proba of the trained classifier (percent: Low, Medium,
\* High): a function of the features, here the regions the training data
\* of _generate_synthetic_training_data are drawn from
PredictProba(features) ==
    IF features.coverage_pct >= 8000 THEN <<90, 10, 0>>
    ELSE IF features.coverage_pct >= 5000 THEN <<20, 60, 20>>
    ELSE <<0, 15, 85>>

RISK_LEVELS == <<"Low Risk", "Medium Risk", "High Risk">>

\* extract_features dividing by the number of weak clauses instead
ExtractFeaturesRaisesOnNoWeak(analysis_results) ==
    Len(analysis_results.weak_clauses) = 0

\* extract_features divides by total_clauses
ExtractFeaturesRaises(analysis_results) == analysis_results.total_clauses = 0

\* extract_features (the frequency kept to hundredths)
ExtractFeatures(analysis_results) ==
    [missing_controls |-> analysis_results.missing_controls_count,
     cia_imbalance |-> 10000 - analysis_results.cia_balance_index,
     weak_statements_freq |->
         RoundDiv(Len(analysis_results.weak_clauses) * 10000,
                  analysis_results.total_clauses),
     coverage_pct |-> analysis_results.compliance_percentage]

NoFeatures ==
    [missing_controls |-> 0, cia_imbalance |-> 0,
     weak_statements_freq |-> 0, coverage_pct |-> 0]

\* predict_risk when the model or the scaler is None
RiskUnknown ==
    [error |-> TRUE, risk_level |-> "Unknown", risk_score |-> -1,
     probability_distribution |-> <<0, 0, 0>>, has_distribution |-> FALSE,
     feature_contributions |-> NoFeatures]

\* predict_risk with the model and the scaler present
PredictRisk(analysis_results) ==
    LET probabilities == PredictProba(ExtractFeatures(analysis_results))
        prediction == ArgMax(probabilities, 3, 1)
    IN  [error |-> FALSE, risk_level |-> RISK_LEVELS[prediction],
         risk_score |-> prediction - 1,
         probability_distribution |-> [i \in 1..3 |-> 100 * probabilities[i]],
         has_distribution |-> TRUE,
         feature_contributions |-> ExtractFeatures(analysis_results)]

\* get_audit_readiness_score
GetAuditReadinessScore(risk_prediction) ==
    LET p == risk_prediction.probability_distribution
        readiness_score == RoundDiv(2 * p[1] + p[2], 2)
    IN  [audit_readiness_score |-> readiness_score,
         readiness_level |-> IF readiness_score >= 8000 THEN "Audit Ready"
                             ELSE IF readiness_score >= 6000 THEN "Mostly Ready"
                             ELSE IF readiness_score >= 4000 THEN "Preparing"
                             ELSE "Not Ready"]

\* ----------------------------------------- the orchestrator: run
\* d[k] = v on a dict
DictSet(d, k, v) == [x \in (DOMAIN d) \cup {k} |-> IF x = k THEN v ELSE d[x]]

RECURSIVE SumValues(_, _)
\* sum(d.values()) over the keys ks
SumValues(d, ks) ==
    IF ks = {} THEN 0
    ELSE LET k == CHOOSE x \in ks : TRUE
         IN  d[k] + SumValues(d, ks \ {k})

\* _compute_cci with the weights of Layer 2 and Layer 3 exchanged
ComputeCciSwappedWeights(structural_score, semantic_score, reasoning_confidence) ==
    RoundDiv(4 * structural_score + 2 * semantic_score + 4 * reasoning_confidence, 10)

\* _compute_cci
ComputeCci(structural_score, semantic_score, reasoning_confidence) ==
    RoundDiv(4 * structural_score + 4 * semantic_score + 2 * reasoning_confidence, 10)

\* the clause_matches of a Layer-2 result that are weak
WeakClauses(l2) ==
    SelectSeqIdx(l2.clause_matches,
        [i \in DOMAIN l2.clause_matches |-> l2.clause_matches[i].compliance_level = "weak"], 1)

\* primary_fw taken from the end of the list
PrimaryFwLast(fws) == fws[Len(fws)]

\* primary_fw = frameworks[0] (line 126)
PrimaryFw(fws) == fws[1]

\* risk_input (lines 127-137)
RiskInput(l2, cia, n_clauses) ==
    [missing_controls_count |-> l2.total_controls - l2.matched_controls,
     cia_balance_index |-> IF cia.kind = "full" THEN cia.cia_balance_index ELSE 5000,
     weak_clauses |-> WeakClauses(l2),
     total_clauses |-> n_clauses,
     compliance_percentage |-> l2.compliance_percentage]

\* one entry of the legacy compliance_results (lines 143-157)
ComplianceResult(l2) ==
    [compliance_percentage |-> l2.compliance_percentage,
     matched_controls_count |-> l2.matched_controls,
     total_controls |-> l2.total_controls,
     total_clauses |-> l2.total_clauses,
     matched_clauses |-> l2.strong_count + l2.partial_count,
     missing_controls |-> Take(l2.missing_controls, 10),
     weak_clauses |-> Take(WeakClauses(l2), 5)]

\* every sequence over S of length at most n
SeqsUpTo(S, n) == UNION {[1..k -> S] : k \in 0..n}

\* the clause lists a document is split into: clauses of the pool in the
\* order of the pool
Documents ==
    {cs \in SeqsUpTo(ClauseIds, MaxClauses) : \A i \in 1..(Len(cs) - 1) : cs[i] < cs[i + 1]}

\* round(sum(cci_scores.values()) / len(cci_scores), 2) if cci_scores else 0
OverallCci(scores) ==
    IF DOMAIN scores # {}
    THEN RoundChoices(SumValues(scores, DOMAIN scores), Cardinality(DOMAIN scores))
    ELSE {0}

\* the dict run returns (lines 159-185)
BuildReport(fws, l1, l2, l3, cci, cia, risk, readiness, overall) ==
    [built |-> TRUE,
     analysis_id |-> "token", file_name |-> "document",
     frameworks |-> fws,
     compliance_results |-> [fw \in Range(fws) |-> ComplianceResult(l2[fw])],
     cia_analysis |-> cia,
     risk_prediction |-> risk,
     audit_readiness |-> readiness,
     hybrid_analysis |->
         [layer1_structural |-> l1,
          layer2_semantic |-> l2,
          layer3_reasoning |-> l3,
          cci_scores |-> cci,
          overall_cci |-> overall],
     analyzed_at |-> "utcnow"]

NoReport == [built |-> FALSE]

VARIABLES
    \* the deployment
    embed_loadable,         \* sentence_transformers and its model can be loaded
    llm_provider,           \* settings.LLM_PROVIDER
    llm_loadable,           \* LLMProvider._load_model succeeds
    audit_model,            \* AuditRiskPredictor.model and .scaler
    \* the engines' state, kept across runs
    _model,                 \* SemanticSimilarityEngine._model
    _framework_embeddings,  \* SemanticSimilarityEngine._framework_embeddings
    _is_loaded,             \* LLMProvider._is_loaded
    encode_calls,           \* per framework, the calls of _model.encode on its
                            \* control descriptions (counted up to MaxEncodeCalls)
    \* one call of run
    pc, clauses, full_text, frameworks, include_cia,
    fw_idx,                 \* the position of the for loop in frameworks
    layer1_results, layer2_results, layer3_results, cci_scores,
    cia_data,               \* the cia_data of the last Layer-3 call
    cia_calls,              \* calls of analyze_document_cia in this run
    llm_calls,              \* per framework, what llm_provider.generate did
    cia_analysis, risk_prediction, audit_readiness,
    report,                 \* the dict run returns
    exception,              \* the exception run raised
    \* concurrent calls of semantic_engine.analyze
    _instance,              \* the module's _instance: 0 for None, else the
                            \* position of the engine in instances
    instances,              \* the SemanticSimilarityEngine objects created
    calls                   \* per call, its position and its local variables

env == <<embed_loadable, llm_provider, llm_loadable, audit_model>>
engines == <<_model, _framework_embeddings, _is_loaded, encode_calls>>
inputs == <<clauses, full_text, frameworks, include_cia>>
layers == <<layer1_results, layer2_results, layer3_results, cci_scores>>
tailvars == <<cia_analysis, risk_prediction, audit_readiness, report, exception>>
callvars == <<_instance, instances, calls>>
runvars == <<env, engines, inputs, pc, fw_idx, layers, cia_data, cia_calls, llm_calls,
             tailvars>>
vars == <<runvars, callvars>>

Threads == 1..MaxCalls

\* a call that has not started
IdleCall ==
    [pc |-> "idle", clauses |-> <<>>, framework |-> "None", self |-> 0,
     ret |-> "None", control_embeddings |-> NoEmbeddings, result |-> "None"]

NoRisk == [error |-> FALSE, risk_level |-> "None", risk_score |-> -1,
           probability_distribution |-> <<0, 0, 0>>, has_distribution |-> FALSE,
           feature_contributions |-> NoFeatures]
NoReadiness == [audit_readiness_score |-> 0, readiness_level |-> "None"]

Init ==
    /\ embed_loadable \in BOOLEAN
    /\ llm_provider \in {"none", "llama_cpp"}
    \* with provider "none" no model is ever loaded
    /\ llm_loadable \in (IF llm_provider = "none" THEN {FALSE} ELSE BOOLEAN)
    /\ audit_model \in {"None", "loaded"}
    /\ _model = "None" /\ _framework_embeddings = <<>> /\ _is_loaded = FALSE
    /\ encode_calls = [fw \in Frameworks |-> 0]
    /\ pc = "idle"
    /\ clauses = <<>> /\ full_text = <<>> /\ frameworks = <<>> /\ include_cia = TRUE
    /\ fw_idx = 1
    /\ layer1_results = <<>> /\ layer2_results = <<>>
    /\ layer3_results = <<>> /\ cci_scores = <<>>
    /\ cia_data = NoCia /\ cia_calls = 0 /\ llm_calls = <<>>
    /\ cia_analysis = NoCia
    /\ risk_prediction = NoRisk /\ audit_readiness = NoReadiness
    /\ report = NoReport /\ exception = "None"
    /\ _instance = 0 /\ instances = <<>> /\ calls = [t \in Threads |-> IdleCall]

\* run(clauses=cs, full_text=ft, frameworks=fws, include_cia=inc) is called
\* (lines 66-87).  A document given by file_path reaches the same point with
\* the clauses and the text the document processor extracted.
StartRun ==
    /\ pc = "idle"
    /\ \E cs \in Documents, ft \in FullTexts,
          fws \in SeqsUpTo(Frameworks, MaxFrameworks), inc \in BOOLEAN :
        /\ clauses' = cs
        /\ full_text' = IF ft.given THEN ft.text
                        ELSE JoinTexts([i \in DOMAIN cs |-> ClauseText(cs[i])])
        /\ frameworks' = fws
        /\ include_cia' = inc
        /\ pc' = IF fws = <<>> THEN "cia" ELSE "l1"
    /\ UNCHANGED <<callvars, env, engines, fw_idx, layers, cia_data, cia_calls, llm_calls, tailvars>>

\* Layer 1 of the current framework followed at once by Layer 3
Layer1SkipsLayer2 ==
    /\ pc = "l1"
    /\ layer1_results' = DictSet(layer1_results, frameworks[fw_idx],
                            RuleEngineAnalyze(full_text, clauses, frameworks[fw_idx]))
    /\ pc' = "l3"
    /\ UNCHANGED <<callvars, env, engines, inputs, fw_idx, layer2_results, layer3_results,
                   cci_scores, cia_data, cia_calls, llm_calls, tailvars>>

\* Layer 1 of the current framework (lines 92-95)
Layer1 ==
    /\ pc = "l1"
    /\ layer1_results' = DictSet(layer1_results, frameworks[fw_idx],
                            RuleEngineAnalyze(full_text, clauses, frameworks[fw_idx]))
    /\ pc' = "l2"
    /\ UNCHANGED <<callvars, env, engines, inputs, fw_idx, layer2_results, layer3_results,
                   cci_scores, cia_data, cia_calls, llm_calls, tailvars>>

\* Layer 2 of the current framework (lines 97-100)
Layer2 ==
    /\ pc = "l2"
    /\ LET r == SemanticAnalyze(clauses, frameworks[fw_idx], _model,
                                _framework_embeddings, embed_loadable)
       IN  /\ layer2_results' = DictSet(layer2_results, frameworks[fw_idx], r.result)
           /\ _model' = r.model
           /\ _framework_embeddings' = r.cache
           /\ encode_calls' =
                  IF r.encoded
                  THEN [encode_calls EXCEPT ![frameworks[fw_idx]] = Min(@ + 1, MaxEncodeCalls)]
                  ELSE encode_calls
    /\ pc' = "l3"
    /\ UNCHANGED <<callvars, env, _is_loaded, inputs, fw_idx, layer1_results, layer3_results,
                   cci_scores, cia_data, cia_calls, llm_calls, tailvars>>

\* Layer 3 of the current framework, its CCI, and the step of the loop
\* (lines 102-118)
Layer3 ==
    /\ pc = "l3"
    /\ \E raises \in BOOLEAN, confidence \in LlmConfidences :
        LET fw == frameworks[fw_idx]
            l1 == layer1_results[fw]
            l2 == layer2_results[fw]
            cia == IF include_cia THEN AnalyzeDocumentCia(clauses) ELSE NoCia
            avail == IsAvailable(llm_provider, _is_loaded, llm_loadable)
            l3 == ReasoningAnalyze(l1, l2, cia, avail.available, raises, confidence)
        IN  /\ cia_data' = cia
            /\ cia_calls' = IF include_cia THEN cia_calls + 1 ELSE cia_calls
            /\ _is_loaded' = avail.is_loaded
            /\ llm_calls' = DictSet(llm_calls, fw,
                                IF ~avail.available THEN "not_called"
                                ELSE IF raises THEN "raised" ELSE "answered")
            /\ layer3_results' = DictSet(layer3_results, fw, l3)
            /\ cci_scores' = DictSet(cci_scores, fw,
                                ComputeCci(l1.structural_score, l2.semantic_score,
                                           l3.reasoning_confidence))
    /\ fw_idx' = fw_idx + 1
    /\ pc' = IF fw_idx < Len(frameworks) THEN "l1" ELSE "cia"
    /\ UNCHANGED <<callvars, env, _model, _framework_embeddings, encode_calls, inputs, layer1_results,
                   layer2_results, tailvars>>

\* Step 5, the CIA analysis of the report (lines 120-123)
CiaAnalysis ==
    /\ pc = "cia"
    /\ cia_analysis' = IF include_cia THEN AnalyzeDocumentCia(clauses) ELSE NoCia
    /\ cia_calls' = IF include_cia THEN cia_calls + 1 ELSE cia_calls
    /\ pc' = "risk"
    /\ UNCHANGED <<callvars, env, engines, inputs, fw_idx, layers, cia_data, llm_calls,
                   risk_prediction, audit_readiness, report, exception>>

\* Step 6, frameworks[0] of an empty list (line 126)
RiskIndexError ==
    /\ pc = "risk"
    /\ frameworks = <<>>
    /\ exception' = "IndexError"
    /\ pc' = "raised"
    /\ UNCHANGED <<callvars, env, engines, inputs, fw_idx, layers, cia_data, cia_calls, llm_calls,
                   cia_analysis, risk_prediction, audit_readiness, report>>

\* Steps 6 and 7 with the model or the scaler None, and the response
\* (lines 126-185; predictor lines 142-147)
RiskUnavailable ==
    /\ pc = "risk"
    /\ frameworks # <<>>
    /\ audit_model = "None"
    /\ risk_prediction' = RiskUnknown
    /\ audit_readiness' = GetAuditReadinessScore(RiskUnknown)
    /\ \E overall \in OverallCci(cci_scores) :
        report' = BuildReport(frameworks, layer1_results, layer2_results,
                      layer3_results, cci_scores, cia_analysis, RiskUnknown,
                      GetAuditReadinessScore(RiskUnknown), overall)
    /\ pc' = "done"
    /\ UNCHANGED <<callvars, env, engines, inputs, fw_idx, layers, cia_data, cia_calls, llm_calls,
                   cia_analysis, exception>>

\* Step 6, the division by total_clauses = 0 in extract_features (line 118)
RiskZeroDivision ==
    /\ pc = "risk"
    /\ frameworks # <<>>
    /\ audit_model # "None"
    /\ ExtractFeaturesRaises(RiskInput(layer2_results[PrimaryFw(frameworks)],
                                       cia_analysis, Len(clauses)))
    /\ exception' = "ZeroDivisionError"
    /\ pc' = "raised"
    /\ UNCHANGED <<callvars, env, engines, inputs, fw_idx, layers, cia_data, cia_calls, llm_calls,
                   cia_analysis, risk_prediction, audit_readiness, report>>

\* Steps 6 and 7 with the prediction, and the response (lines 126-185;
\* predictor lines 149-186)
RiskPrediction ==
    /\ pc = "risk"
    /\ frameworks # <<>>
    /\ audit_model # "None"
    /\ LET risk_input == RiskInput(layer2_results[PrimaryFw(frameworks)],
                                   cia_analysis, Len(clauses))
           risk == PredictRisk(risk_input)
       IN  /\ ~ExtractFeaturesRaises(risk_input)
           /\ risk_prediction' = risk
           /\ audit_readiness' = GetAuditReadinessScore(risk)
           /\ \E overall \in OverallCci(cci_scores) :
                report' = BuildReport(frameworks, layer1_results, layer2_results,
                              layer3_results, cci_scores, cia_analysis, risk,
                              GetAuditReadinessScore(risk), overall)
    /\ pc' = "done"
    /\ UNCHANGED <<callvars, env, engines, inputs, fw_idx, layers, cia_data, cia_calls, llm_calls,
                   cia_analysis, exception>>

\* run has returned or raised; the caller may call again
Return ==
    /\ pc \in {"done", "raised"}
    /\ pc' = "idle"
    /\ clauses' = <<>> /\ full_text' = <<>> /\ frameworks' = <<>> /\ include_cia' = TRUE
    /\ fw_idx' = 1
    /\ layer1_results' = <<>> /\ layer2_results' = <<>>
    /\ layer3_results' = <<>> /\ cci_scores' = <<>>
    /\ cia_data' = NoCia /\ cia_calls' = 0 /\ llm_calls' = <<>>
    /\ cia_analysis' = NoCia
    /\ risk_prediction' = NoRisk /\ audit_readiness' = NoReadiness
    /\ report' = NoReport /\ exception' = "None"
    /\ UNCHANGED <<callvars, env, engines>>

Next ==
    \/ StartRun
    \/ Layer1
    \/ Layer2
    \/ Layer3
    \/ CiaAnalysis
    \/ RiskIndexError
    \/ RiskUnavailable
    \/ RiskZeroDivision
    \/ RiskPrediction
    \/ Return

Spec == Init /\ [][Next]_vars

\* ------------------------- concurrent calls of semantic_engine.analyze
\* Several requests call semantic_engine.analyze(clauses, framework) at the
\* same time, starting with no engine, no model and no cached embeddings.
\* Each step below is one read or write of the shared state (_instance, an
\* engine's _model and _framework_embeddings); between two steps of a call
\* any other call may run.
CallDocuments == {cs \in Documents : Len(cs) <= 1}
CallFrameworks == {"iso27001", "gdpr"}

\* SemanticSimilarityEngine(): the engine after __init__ (lines 38-44)
NewEngine == [_model |-> "None", _framework_embeddings |-> <<>>]

\* the engine a call runs on
Engine(t) == instances[calls[t].self]

SetCall(t, fields) == [calls EXCEPT ![t] = fields @@ calls[t]]

\* a request calls semantic_engine.analyze(clauses, framework)
CallAnalyze(t) ==
    /\ calls[t].pc = "idle"
    /\ \E cs \in CallDocuments, fw \in CallFrameworks :
          calls' = SetCall(t, [pc |-> "get", clauses |-> cs, framework |-> fw])
    /\ UNCHANGED <<_instance, instances, runvars>>

\* _get: if _instance is None (line 284)
GetCheck(t) ==
    /\ calls[t].pc = "get"
    /\ calls' = SetCall(t, [pc |-> IF _instance = 0 THEN "create" ELSE "return_instance"])
    /\ UNCHANGED <<_instance, instances, runvars>>

\* _get: _instance = SemanticSimilarityEngine() (line 285)
GetCreate(t) ==
    /\ calls[t].pc = "create"
    /\ instances' = Append(instances, NewEngine)
    /\ _instance' = Len(instances) + 1
    /\ calls' = SetCall(t, [pc |-> "return_instance"])
    /\ UNCHANGED runvars

\* _get: return _instance (line 286); analyze starts on that engine with
\* its call of _ensure_model (line 118)
GetReturn(t) ==
    /\ calls[t].pc = "return_instance"
    /\ calls' = SetCall(t, [pc |-> "ensure", self |-> _instance, ret |-> "cache_check"])
    /\ UNCHANGED <<_instance, instances, runvars>>

\* _ensure_model: if self._model is not None: return (lines 48-49)
EnsureModelCheck(t) ==
    /\ calls[t].pc = "ensure"
    /\ calls' = SetCall(t, [pc |-> IF Engine(t)._model # "None" THEN calls[t].ret ELSE "load"])
    /\ UNCHANGED <<_instance, instances, runvars>>

\* _ensure_model: the import and the constructor end and self._model is
\* assigned, the model when they succeeded (line 58) and None when they
\* raised (line 62).  ok: this attempt succeeds
LoadModel(t, ok) ==
    /\ calls[t].pc = "load"
    /\ instances' = [instances EXCEPT ![calls[t].self]._model = IF ok THEN "loaded" ELSE "None"]
    /\ calls' = SetCall(t, [pc |-> calls[t].ret])
    /\ UNCHANGED <<_instance, runvars>>

\* _get_control_embeddings: the cache lookup (lines 82-84), followed by the
\* second call of _ensure_model when the framework is not cached
CacheCheck(t) ==
    /\ calls[t].pc = "cache_check"
    /\ calls' = IF calls[t].framework \in DOMAIN Engine(t)._framework_embeddings
                THEN SetCall(t, [pc |-> "branch",
                                 control_embeddings |->
                                     Engine(t)._framework_embeddings[calls[t].framework]])
                ELSE SetCall(t, [pc |-> "ensure", ret |-> "model_check"])
    /\ UNCHANGED <<_instance, instances, runvars>>

\* _get_control_embeddings: if self._model is None, and if not texts
\* (lines 85-90)
ModelCheck(t) ==
    /\ calls[t].pc = "model_check"
    /\ calls' = IF Engine(t)._model = "None" \/ FRAMEWORK_CONTROLS(calls[t].framework) = <<>>
                THEN SetCall(t, [pc |-> "branch", control_embeddings |-> NoEmbeddings])
                ELSE SetCall(t, [pc |-> "encode_controls"])
    /\ UNCHANGED <<_instance, instances, runvars>>

\* _get_control_embeddings: embeddings = self._model.encode(texts) (line 91);
\* with self._model None by now the attribute lookup raises AttributeError
EncodeControlTexts(t) ==
    /\ calls[t].pc = "encode_controls"
    /\ calls' = IF Engine(t)._model = "None"
                THEN SetCall(t, [pc |-> "raised"])
                ELSE SetCall(t, [pc |-> "store",
                                 control_embeddings |-> EncodeControls(calls[t].framework)])
    /\ UNCHANGED <<_instance, instances, runvars>>

\* _get_control_embeddings: self._framework_embeddings[framework] =
\* embeddings (line 92)
StoreEmbeddings(t) ==
    /\ calls[t].pc = "store"
    /\ instances' = [instances EXCEPT ![calls[t].self]._framework_embeddings =
                        DictSet(@, calls[t].framework, calls[t].control_embeddings)]
    /\ calls' = SetCall(t, [pc |-> "branch"])
    /\ UNCHANGED <<_instance, runvars>>

\* analyze: the choice of the path (lines 124-129)
Branch(t) ==
    /\ calls[t].pc = "branch"
    /\ calls' = IF Engine(t)._model = "None" \/ calls[t].control_embeddings.len = 0
                THEN SetCall(t, [pc |-> "returned",
                                 result |-> FallbackAnalysis(calls[t].clauses, calls[t].framework)])
                ELSE IF calls[t].clauses = <<>>
                THEN SetCall(t, [pc |-> "returned",
                                 result |-> SemanticEmptyResult(calls[t].framework)])
                ELSE SetCall(t, [pc |-> "encode_clauses"])
    /\ UNCHANGED <<_instance, instances, runvars>>

\* analyze: clause_embeddings = self._model.encode(clause_texts) and the
\* rest of the embedding path, which reads no shared state (lines 132-208)
EncodeClauses(t) ==
    /\ calls[t].pc = "encode_clauses"
    /\ calls' = IF Engine(t)._model = "None"
                THEN SetCall(t, [pc |-> "raised"])
                ELSE SetCall(t, [pc |-> "returned",
                                 result |-> EmbeddingAnalysis(calls[t].clauses, calls[t].framework,
                                                              calls[t].control_embeddings)])
    /\ UNCHANGED <<_instance, instances, runvars>>

NextConcurrent ==
    \E t \in Threads :
          \/ CallAnalyze(t)
          \/ GetCheck(t)
          \/ GetCreate(t)
          \/ GetReturn(t)
          \/ EnsureModelCheck(t)
          \/ \E ok \in BOOLEAN : LoadModel(t, ok)
          \/ CacheCheck(t)
          \/ ModelCheck(t)
          \/ EncodeControlTexts(t)
          \/ StoreEmbeddings(t)
          \/ Branch(t)
          \/ EncodeClauses(t)

\* the calls start with nothing populated; the LLM and the risk model play
\* no part
InitConcurrent == Init /\ llm_provider = "none" /\ audit_model = "None"

SpecConcurrent == InitConcurrent /\ [][NextConcurrent]_vars

\* the same calls in a deployment where every attempt to load the model ends
\* the same way, as embed_loadable says
NextConcurrentStable ==
    \E t \in Threads :
          \/ CallAnalyze(t)
          \/ GetCheck(t)
          \/ GetCreate(t)
          \/ GetReturn(t)
          \/ EnsureModelCheck(t)
          \/ LoadModel(t, embed_loadable)
          \/ CacheCheck(t)
          \/ ModelCheck(t)
          \/ EncodeControlTexts(t)
          \/ StoreEmbeddings(t)
          \/ Branch(t)
          \/ EncodeClauses(t)

SpecConcurrentStable == InitConcurrent /\ [][NextConcurrentStable]_vars

\* ------------------------------------------------------- properties
\* the frameworks with a Layer-1 catalog and Layer-2 control data
SupportedFrameworks ==
    {fw \in Frameworks : FRAMEWORK_SECTIONS(fw) # <<>> /\ FRAMEWORK_CONTROLS(fw) # <<>>}

\* run is between its first statement and its return
InRun == pc \in {"l1", "l2", "l3", "cia", "risk"}

\* the steps run still has to take
RunMeasure ==
    CASE pc = "l1" -> 3 * (Len(frameworks) - fw_idx) + 5
      [] pc = "l2" -> 3 * (Len(frameworks) - fw_idx) + 4
      [] pc = "l3" -> 3 * (Len(frameworks) - fw_idx) + 3
      [] pc = "cia" -> 2
      [] pc = "risk" -> 1
      [] OTHER -> 0

CCIReportFields ==
    {"analysis_id", "file_name", "frameworks", "compliance_results", "cia_analysis",
     "risk_prediction", "audit_readiness", "hybrid_analysis", "analyzed_at"}

HybridAnalysisFields ==
    {"layer1_structural", "layer2_semantic", "layer3_reasoning", "cci_scores",
     "overall_cci"}

\* the report run returned has every CCIReport field
ReportComplete ==
    /\ report.built
    /\ CCIReportFields \subseteq DOMAIN report
    /\ HybridAnalysisFields \subseteq DOMAIN report.hybrid_analysis

\* C1: run called with an empty clause list and supported frameworks does
\* not raise: once started it never ends in an exception, and what it
\* returns is a report with every CCIReport field.
C1_EmptyClausesReturnReport ==
    (/\ pc # "idle"
     /\ clauses = <<>>
     /\ frameworks # <<>>
     /\ Range(frameworks) \subseteq SupportedFrameworks)
    => /\ pc # "raised"
       /\ exception = "None"
       /\ pc = "done" => ReportComplete

\* C2: with non-empty clauses and a non-empty frameworks list run never
\* raises, whatever the state of the embedding model, the LLM and the risk
\* model; every step it takes brings it closer to its return, and it ends
\* by returning a complete report.
C2_NonEmptyRunReturns ==
    /\ []((clauses # <<>> /\ frameworks # <<>>)
            => (/\ pc # "raised"
                /\ exception = "None"
                /\ pc = "done" => ReportComplete))
    /\ [][(clauses # <<>> /\ frameworks # <<>> /\ InRun)
            => (/\ RunMeasure' < RunMeasure
                /\ RunMeasure' = 0 => pc' = "done")]_vars

\* C2 witness: a run on a non-empty document returned with every
\* dependency degraded: no embedding model, the LLM raising, no risk model
C2_Witness ==
    /\ pc = "done"
    /\ clauses # <<>>
    /\ Len(frameworks) = 2
    /\ ~embed_loadable
    /\ audit_model = "None"
    /\ \E fw \in DOMAIN llm_calls : llm_calls[fw] = "raised"
    /\ ReportComplete

\* C3: after a run on an empty clause list, every processed supported
\* framework has structural_score, semantic_score and CCI 0, and its
\* Layer-2 missing_controls lists every control of the catalog.
C3_EmptyClausesScoresZero ==
    (clauses = <<>> /\ pc # "idle")
    => \A fw \in (DOMAIN cci_scores) \cap SupportedFrameworks :
          /\ layer1_results[fw].structural_score = 0
          /\ layer2_results[fw].semantic_score = 0
          /\ cci_scores[fw] = 0
          /\ {layer2_results[fw].missing_controls[i].control_id :
                 i \in DOMAIN layer2_results[fw].missing_controls}
             = {FRAMEWORK_CONTROLS(fw)[j].id : j \in DOMAIN FRAMEWORK_CONTROLS(fw)}

\* C4: when the LLM is available and generate raises, analyze still returns
\* a result to run, and its source is not "llm".
C4_LlmFailureIsCaught ==
    \A fw \in DOMAIN llm_calls :
        llm_calls[fw] = "raised"
        => /\ fw \in DOMAIN layer3_results
           /\ fw \in DOMAIN cci_scores
           /\ layer3_results[fw].source # "llm"
           /\ layer3_results[fw].source \in {"rule_based", "rule_based_fallback"}

\* C4 witness: generate raised during the Layer-3 call of a framework
C4_Witness ==
    /\ pc \in {"l1", "cia"}
    /\ llm_provider # "none"
    /\ _is_loaded
    /\ \E fw \in DOMAIN llm_calls :
          llm_calls[fw] = "raised" /\ layer3_results[fw].source = "rule_based_fallback"

\* C5: when the LLM call raises, analyze returns what the rule-based path
\* computes from the same Layer-1, Layer-2 and CIA inputs.
C5_LlmFailureEqualsRuleBased ==
    \A fw \in DOMAIN llm_calls :
        llm_calls[fw] = "raised"
        => LET got == layer3_results[fw]
               rb == RuleBasedReasoning(layer1_results[fw], layer2_results[fw], cia_data)
           IN  /\ got.reasoning_confidence = rb.reasoning_confidence
               /\ got.gap_explanations = rb.gap_explanations
               /\ got.improvement_suggestions = rb.improvement_suggestions
               /\ got.rewritten_clauses = rb.rewritten_clauses
               /\ got.cia_impact_summary = rb.cia_impact_summary

\* C6: for a framework key without catalog and control data both layers
\* return a zero result (total_required = 0, total_controls = 0, scores 0)
\* for every clause list and every state of the embedding model, and the
\* calls raise nothing.
C6_UnknownFrameworkZeroResult ==
    /\ \A fw \in (DOMAIN layer1_results) \ SupportedFrameworks :
          /\ layer1_results[fw].total_required = 0
          /\ layer1_results[fw].structural_score = 0
    /\ \A fw \in (DOMAIN layer2_results) \ SupportedFrameworks :
          /\ layer2_results[fw].total_controls = 0
          /\ layer2_results[fw].semantic_score = 0
    /\ pc \in {"l1", "l2", "l3"} => exception = "None"

\* C6 witness: "foo" went through both layers with clauses given and the
\* embedding model loaded
C6_Witness ==
    /\ "foo" \notin SupportedFrameworks
    /\ "foo" \in DOMAIN layer1_results
    /\ "foo" \in DOMAIN layer2_results
    /\ clauses # <<>>
    /\ _model = "loaded"
    /\ pc = "l3"

\* C7: a supported framework never gets total_required = 0 from Layer 1
\* nor total_controls = 0 from Layer 2, whatever the clause list.
C7_ZeroTotalsOnlyWhenUnsupported ==
    /\ \A fw \in (DOMAIN layer1_results) \cap SupportedFrameworks :
          layer1_results[fw].total_required > 0
    /\ \A fw \in (DOMAIN layer2_results) \cap SupportedFrameworks :
          layer2_results[fw].total_controls > 0

\* C8: overall_cci is the mean of the values of cci_scores rounded to 2
\* decimals, and a run with an empty frameworks list returns a report whose
\* overall_cci is 0.
C8_OverallCciIsMean ==
    /\ pc = "done"
          => LET n == Cardinality(DOMAIN cci_scores)
                 total == SumValues(cci_scores, DOMAIN cci_scores)
                 overall == report.hybrid_analysis.overall_cci
             IN  /\ 2 * (n * overall - total) <= n
                 /\ 2 * (total - n * overall) <= n
    /\ (frameworks = <<>> /\ pc \in {"done", "raised"})
          => (pc = "done" /\ report.built /\ report.hybrid_analysis.overall_cci = 0)

\* C9: the CCI of every processed framework is 0.4 * structural_score +
\* 0.4 * semantic_score + 0.2 * reasoning_confidence of that framework's own
\* three layer results, rounded to 2 decimals; 80, 60, 70 give 70.0.
C9_CciIsWeightedSum ==
    /\ \A fw \in DOMAIN cci_scores :
          LET exact10 == 4 * layer1_results[fw].structural_score
                         + 4 * layer2_results[fw].semantic_score
                         + 2 * layer3_results[fw].reasoning_confidence
          IN  10 * cci_scores[fw] - exact10 \in -4..4
    /\ ComputeCci(8000, 6000, 7000) = 7000
    /\ pc = "done" => report.hybrid_analysis.cci_scores = cci_scores

\* C9 witness: a report with the CCI of two frameworks, the three scores of
\* one of them pairwise different and its CCI different from the other's
C9_Witness ==
    /\ pc = "done"
    /\ \E fw, other \in DOMAIN report.hybrid_analysis.cci_scores :
          /\ cci_scores[fw] # cci_scores[other]
          /\ layer1_results[fw].structural_score # layer2_results[fw].semantic_score
          /\ layer2_results[fw].semantic_score # layer3_results[fw].reasoning_confidence
          /\ layer1_results[fw].structural_score # layer3_results[fw].reasoning_confidence
          /\ layer1_results[fw].structural_score > 0

\* C10: every Layer-2 result has semantic_score = 100 * (strong_count +
\* 0.5 * partial_count) / total_clauses rounded to 2 decimals, and 0 when
\* total_clauses is 0.
C10_SemanticScoreFormula ==
    \A fw \in DOMAIN layer2_results :
        LET r == layer2_results[fw]
            exact == 5000 * (2 * r.strong_count + r.partial_count)
        IN  IF r.total_clauses = 0 THEN r.semantic_score = 0
            ELSE /\ 2 * (r.total_clauses * r.semantic_score - exact) <= r.total_clauses
                 /\ 2 * (exact - r.total_clauses * r.semantic_score) <= r.total_clauses

\* the embedding path of analyze was taken for framework fw: the model is
\* loaded and the framework's control embeddings exist
EmbeddingPath(fw) == _model # "None" /\ fw \in DOMAIN _framework_embeddings

\* C11: when the embedding model cannot be loaded, analyze does not raise
\* and returns the keyword result, with strong_count = 0 and the note; a
\* result carries the note exactly when it was not computed on the
\* embedding path.
C11_FallbackIsLabelled ==
    /\ (pc \in {"l1", "l2", "l3", "cia"} => exception = "None")
    /\ \A fw \in DOMAIN layer2_results :
        LET r == layer2_results[fw]
        IN  /\ ~embed_loadable => (r.note /\ r.strong_count = 0 /\ r.clause_matches = <<>>)
            /\ r.note <=> ~EmbeddingPath(fw)
            /\ r.note => r.strong_count = 0

\* the model cannot be loaded and Layer 2 has answered with matched controls
C11_Witness ==
    /\ pc = "l3" /\ ~embed_loadable /\ clauses # <<>>
    /\ layer2_results[frameworks[fw_idx]].note
    /\ layer2_results[frameworks[fw_idx]].partial_count > 0

\* what the layers answer for framework fw in a process that has analysed
\* nothing before: no model loaded, no embeddings cached
FreshLayer1(fw) == RuleEngineAnalyze(full_text, clauses, fw)
FreshLayer2(fw) == SemanticAnalyze(clauses, fw, "None", <<>>, embed_loadable).result
FreshCia == IF include_cia THEN AnalyzeDocumentCia(clauses) ELSE NoCia

C13_RiskFromFirstFrameworkOnly ==
    pc = "done" =>
        /\ risk_prediction =
               IF audit_model = "None" THEN RiskUnknown
               ELSE PredictRisk(RiskInput(layer2_results[frameworks[1]], cia_analysis,
                                          Len(clauses)))
        /\ audit_readiness = GetAuditReadinessScore(risk_prediction)
        /\ report.risk_prediction = risk_prediction
        /\ report.audit_readiness = audit_readiness

\* a run over two frameworks has returned, and the Layer-2 result of the
\* second framework would have given another prediction
C13_Witness ==
    /\ pc = "done" /\ Len(frameworks) = 2 /\ audit_model # "None"
    /\ layer2_results[frameworks[2]] # layer2_results[frameworks[1]]
    /\ PredictRisk(RiskInput(layer2_results[frameworks[2]], cia_analysis, Len(clauses)))
           # risk_prediction

\* C14: every result of RuleBasedEngine.analyze has present + partial +
\* missing = total_required, and its section_results hold one entry per
\* required section of the framework's catalog, in the catalog's order.
C14_StatusCountsAddUp ==
    \A fw \in DOMAIN layer1_results :
        LET r == layer1_results[fw]
            required == FRAMEWORK_SECTIONS(fw)
        IN  /\ r.present + r.partial + r.missing = r.total_required
            /\ r.total_required = Len(required)
            /\ Len(r.section_results) = Len(required)
            /\ \A i \in DOMAIN required : r.section_results[i].clause = required[i].clause
            /\ \A i \in DOMAIN r.section_results :
                   r.section_results[i].status \in {"present", "partial", "missing"}

\* Layer 1 has answered for a document with sections of all three statuses
C14_Witness ==
    /\ pc = "l2"
    /\ layer1_results[frameworks[fw_idx]].present > 0
    /\ layer1_results[frameworks[fw_idx]].partial > 0
    /\ layer1_results[frameworks[fw_idx]].missing > 0

\* C15: in every result of RuleBasedEngine.analyze structural_score is
\* 100 * (present + 0.5 * partial) / total_required rounded to two decimals
\* (within half a hundredth of the exact quotient) when total_required > 0,
\* and 0 when total_required = 0.
C15_StructuralScoreFormula ==
    \A fw \in DOMAIN layer1_results :
        LET r == layer1_results[fw]
            exact == 10000 * (2 * r.present + r.partial)
        IN  IF r.total_required = 0 THEN r.structural_score = 0
            ELSE /\ 2 * r.total_required * r.structural_score - exact <= r.total_required
                 /\ exact - 2 * r.total_required * r.structural_score <= r.total_required

\* Layer 1 has scored a document with present and partial sections whose
\* quotient is not a whole number of hundredths
C15_Witness ==
    /\ pc = "l2"
    /\ layer1_results[frameworks[fw_idx]].present > 0
    /\ layer1_results[frameworks[fw_idx]].partial > 0
    /\ (10000 * (2 * layer1_results[frameworks[fw_idx]].present
                 + layer1_results[frameworks[fw_idx]].partial))
           % (2 * layer1_results[frameworks[fw_idx]].total_required) # 0

\* C16: every result of SemanticSimilarityEngine.analyze has strong_count +
\* partial_count + weak_count = total_clauses, whether it comes from the
\* embedding path, the keyword fallback or the empty-input path.
C16_LevelCountsAddUp ==
    \A fw \in DOMAIN layer2_results :
        LET r == layer2_results[fw]
        IN  /\ r.strong_count + r.partial_count + r.weak_count = r.total_clauses
            /\ ~r.note => Len(r.clause_matches) = r.total_clauses

\* Layer 2 has answered on the embedding path with a weak and a stronger clause
C16_Witness ==
    /\ pc = "l3"
    /\ ~layer2_results[frameworks[fw_idx]].note
    /\ layer2_results[frameworks[fw_idx]].weak_count > 0
    /\ layer2_results[frameworks[fw_idx]].weak_count
           < layer2_results[frameworks[fw_idx]].total_clauses

C17_NegativeIsWeak ==
    /\ pc = "l3"
    /\ \E i \in DOMAIN layer2_results[frameworks[fw_idx]].clause_matches :
        /\ layer2_results[frameworks[fw_idx]].clause_matches[i].similarity < 0
        /\ layer2_results[frameworks[fw_idx]].clause_matches[i].compliance_level = "weak"

\* C18: a run with include_cia set that has returned its report has called
\* analyze_document_cia exactly once, and that one result is the cia_data of
\* every Layer-3 call and the cia_analysis of the report.
C18_CiaComputedOnce ==
    (pc = "done" /\ include_cia) =>
        /\ cia_calls = 1
        /\ cia_data = cia_analysis
        /\ report.cia_analysis = cia_analysis

\* the frameworks whose three layers have completed: the first n requested
Processed(n) == Range(Take(frameworks, n))

\* C19: frameworks are processed in the order requested; Layer 3 of a
\* framework starts only after Layer 1 and Layer 2 of that framework have
\* returned in the same pass of the loop and works on those two results;
\* the risk prediction starts only after all three layers of every requested
\* framework have completed.
C19_LayerOrder ==
    /\ [](/\ pc \in {"l1", "l2", "l3"} =>
                /\ fw_idx \in 1..Len(frameworks)
                /\ DOMAIN layer3_results = Processed(fw_idx - 1)
                /\ DOMAIN cci_scores = Processed(fw_idx - 1)
                /\ DOMAIN layer2_results = Processed(IF pc = "l3" THEN fw_idx ELSE fw_idx - 1)
                /\ DOMAIN layer1_results = Processed(IF pc = "l1" THEN fw_idx - 1 ELSE fw_idx)
          /\ pc \in {"cia", "risk", "done", "raised"} =>
                /\ DOMAIN layer1_results = Range(frameworks)
                /\ DOMAIN layer2_results = Range(frameworks)
                /\ DOMAIN layer3_results = Range(frameworks)
                /\ risk_prediction # NoRisk => pc = "done"
          /\ \A fw \in DOMAIN layer3_results :
                layer3_results[fw].source = "rule_based" =>
                    /\ layer3_results[fw].reasoning_confidence =
                           CalcConfidence(layer1_results[fw].structural_score,
                                          layer2_results[fw].semantic_score,
                                          Len(layer3_results[fw].gap_explanations))
                    /\ Len(layer3_results[fw].rewritten_clauses) =
                           Min(Len(SemanticWeak(layer2_results[fw])), 2))
    /\ [][/\ pc' = "l2" =>
                /\ pc = "l1" /\ fw_idx' = fw_idx
                /\ layer2_results' = layer2_results /\ layer3_results' = layer3_results
          /\ pc' = "l3" =>
                /\ pc = "l2" /\ fw_idx' = fw_idx
                /\ layer1_results' = layer1_results /\ layer3_results' = layer3_results
          /\ pc = "l3" =>
                /\ layer1_results' = layer1_results /\ layer2_results' = layer2_results
                /\ frameworks[fw_idx] \in DOMAIN layer3_results'
                /\ fw_idx' = fw_idx + 1
                /\ pc' = IF fw_idx < Len(frameworks) THEN "l1" ELSE "cia"
          /\ pc' = "l1" => (pc = "idle" /\ fw_idx' = 1) \/ pc = "l3"
          /\ pc' = "cia" => (pc = "idle" /\ frameworks' = <<>>) \/ pc = "l3"
          /\ pc' = "risk" => pc = "cia"
          /\ risk_prediction' # risk_prediction => (pc = "risk" \/ pc' = "idle")]_vars

\* a run over two different frameworks is about to start Layer 3 of the second
C19_Witness ==
    /\ pc = "l3" /\ fw_idx = 2 /\ Len(frameworks) = 2
    /\ frameworks[1] # frameworks[2]
    /\ DOMAIN layer3_results = {frameworks[1]}
    /\ DOMAIN layer2_results = {frameworks[1], frameworks[2]}

\* C20: on an engine whose model loads, the control descriptions of each
\* framework are encoded at most once: a framework has been encoded exactly
\* when its cache entry exists, a call for a framework with controls leaves
\* its entry written, a call for a cached framework does not encode again,
\* and an entry once written is never removed or changed.
C20_ControlsEncodedOnce ==
    /\ [](embed_loadable =>
            \A fw \in Frameworks :
                /\ encode_calls[fw] <= 1
                /\ encode_calls[fw] = 1 <=> fw \in DOMAIN _framework_embeddings
                /\ fw \in DOMAIN _framework_embeddings =>
                        _framework_embeddings[fw] = EncodeControls(fw))
    /\ [][/\ \A fw \in DOMAIN _framework_embeddings :
                /\ fw \in DOMAIN _framework_embeddings'
                /\ _framework_embeddings'[fw] = _framework_embeddings[fw]
                /\ encode_calls'[fw] = encode_calls[fw]
          /\ (pc = "l2" /\ embed_loadable /\ FRAMEWORK_CONTROLS(frameworks[fw_idx]) # <<>>) =>
                frameworks[fw_idx] \in DOMAIN _framework_embeddings'
          /\ \A fw \in Frameworks :
                encode_calls'[fw] # encode_calls[fw] =>
                    (pc = "l2" /\ fw = frameworks[fw_idx])]_vars

\* the second analyze call of a run for the same framework has answered on
\* the embedding path, the framework encoded once
C20_Witness ==
    /\ pc = "l3" /\ fw_idx = 2 /\ frameworks[1] = frameworks[2]
    /\ ~layer2_results[frameworks[2]].note
    /\ encode_calls[frameworks[2]] = 1
    /\ clauses # <<>>

\* the keywords of a required section found in the document of the run,
\* whatever the case of the document's letters
KeywordsFound(req) ==
    {k \in DOMAIN req.keywords :
        \/ Contains(Lower(full_text), req.keywords[k])
        \/ Contains(Lower(JoinTexts([i \in DOMAIN clauses |-> ClauseText(clauses[i])])),
                    req.keywords[k])}

\* C22: when Layer 1 has answered, each required section is present when at
\* least half of its keywords are found in the full text or the joined
\* clause texts, partial when some but fewer than half are found, and
\* missing when none is found.
C22_SectionStatusByRatio ==
    pc = "l2" =>
        LET required == FRAMEWORK_SECTIONS(frameworks[fw_idx])
            r == layer1_results[frameworks[fw_idx]]
        IN  \A i \in DOMAIN required :
                \A found \in {Cardinality(KeywordsFound(required[i]))} :
                    /\ r.section_results[i].matched_keywords = found
                    /\ r.section_results[i].status = "present" <=>
                           2 * found >= Len(required[i].keywords)
                    /\ r.section_results[i].status = "partial" <=>
                           (found > 0 /\ 2 * found < Len(required[i].keywords))
                    /\ r.section_results[i].status = "missing" <=> found = 0

\* Layer 1 has answered with a section of which exactly half of the keywords
\* are found, a section with fewer than half and a section with none
C22_Witness ==
    /\ pc = "l2"
    /\ \E i \in DOMAIN FRAMEWORK_SECTIONS(frameworks[fw_idx]) :
        /\ 2 * layer1_results[frameworks[fw_idx]].section_results[i].matched_keywords
               = Len(FRAMEWORK_SECTIONS(frameworks[fw_idx])[i].keywords)
        /\ layer1_results[frameworks[fw_idx]].section_results[i].status = "present"
    /\ layer1_results[frameworks[fw_idx]].partial > 0
    /\ layer1_results[frameworks[fw_idx]].missing > 0

\* C23: on the rule-based path the reasoning confidence of a result is
\* 0.4 * structural_score + 0.4 * semantic_score + 20 - min(3 * n, 30) clamped
\* to 0..100, n the number of gap_explanations of that same result, to the
\* two decimals a result keeps; 50, 50 and 10 gaps give 30.
C23_RuleBasedConfidenceFormula ==
    /\ \A fw \in DOMAIN layer3_results :
          layer3_results[fw].source = "rule_based" =>
              LET n == Len(layer3_results[fw].gap_explanations)
                  exact10 == 4 * layer1_results[fw].structural_score
                             + 4 * layer2_results[fw].semantic_score
                             + 20000 - 1000 * Min(n * 3, 30)
                  clamped10 == Max(0, Min(100000, exact10))
              IN  10 * layer3_results[fw].reasoning_confidence - clamped10 \in -5..5
    /\ CalcConfidence(5000, 5000, 10) = 3000

\* C23 witness: a rule-based result with gap explanations whose penalty
\* lowers the confidence, from two different layer scores
C23_Witness ==
    \E fw \in DOMAIN layer3_results :
        /\ layer3_results[fw].source = "rule_based"
        /\ Len(layer3_results[fw].gap_explanations) >= 2
        /\ layer1_results[fw].structural_score # layer2_results[fw].semantic_score
        /\ layer2_results[fw].semantic_score > 0
        /\ layer3_results[fw].reasoning_confidence
             < RoundDiv(4 * layer1_results[fw].structural_score
                        + 4 * layer2_results[fw].semantic_score + 20000, 10)

\* C24: on the rule-based path rewritten_clauses has at most 2 entries and
\* they are the weakest semantic matches: no clause match left out of
\* rewritten_clauses has a lower similarity than one that was rewritten.
C24_RewrittenAreWeakest ==
    \A fw \in DOMAIN layer3_results :
        layer3_results[fw].source = "rule_based" =>
            LET rewritten == layer3_results[fw].rewritten_clauses
                matches == layer2_results[fw].clause_matches
                originals == {rewritten[i].original : i \in DOMAIN rewritten}
            IN  /\ Len(rewritten) <= 2
                /\ \A i, j \in DOMAIN matches :
                      (matches[i].clause_text \in originals
                       /\ matches[j].clause_text \notin originals)
                          => matches[j].similarity >= matches[i].similarity

\* the part of C24 the code keeps: at most two rewritten clauses, the first
\* weak or partial matches in document order
C24_FirstTwoInDocumentOrder ==
    \A fw \in DOMAIN layer3_results :
        layer3_results[fw].source = "rule_based" =>
            LET rewritten == layer3_results[fw].rewritten_clauses
                semantic_weak == SemanticWeak(layer2_results[fw])
            IN  /\ Len(rewritten) = Min(2, Len(semantic_weak))
                /\ \A i \in DOMAIN rewritten :
                      rewritten[i].original = semantic_weak[i].clause_text

\* the pillars of a CIA analysis whose coverage is below 25%
UnderCovered(cia) == {p \in PillarSet : cia.cia_coverage[p] < 2500}

\* C25: analyze_document_cia recommends for under-covered pillars only: for
\* a non-empty clause list there is one recommendation per pillar whose
\* coverage is below 25% and no other, so none for an over-covered pillar
\* and none when no pillar is under-covered.
C25_RecommendationsPerUnderCovered ==
    \A cia \in {cia_data, cia_analysis} :
        cia.kind = "full" =>
            /\ Len(cia.recommendations) = Cardinality(UnderCovered(cia))
            /\ Range(cia.recommendations) = UnderCovered(cia)

\* the part of C25 the code keeps: one recommendation per under-covered
\* pillar, and the well-balanced message exactly when there is no imbalance
C25_UnderCoveredOrBalanced ==
    \A cia \in {cia_data, cia_analysis} :
        cia.kind = "full" =>
            /\ Range(cia.recommendations) \ {"balanced"} = UnderCovered(cia)
            /\ Len(cia.recommendations)
                 = Cardinality(UnderCovered(cia)) + (IF cia.imbalances = <<>> THEN 1 ELSE 0)

\* C26: on the rule-based path cia_impact_summary holds all three pillars,
\* and a pillar is "at_risk" exactly when the structural result has a
\* cia_structural_flags entry for it or a CIA analysis was supplied whose
\* coverage of the pillar is below 25%; it is "covered" otherwise.
C26_CiaImpactSummary ==
    \A fw \in DOMAIN layer3_results :
        layer3_results[fw].source = "rule_based" =>
            LET summary == layer3_results[fw].cia_impact_summary
                flagged(p) == layer1_results[fw].cia_structural_flags[p] # <<>>
                low(p) == cia_data.kind # "None" /\ cia_data.cia_coverage[p] < 2500
            IN  /\ DOMAIN summary = PillarSet
                /\ \A p \in PillarSet :
                      /\ summary[p].status \in {"at_risk", "covered"}
                      /\ summary[p].status = "at_risk" <=> (flagged(p) \/ low(p))

\* C26 witness: a rule-based summary with a pillar at risk through a
\* structural flag, one at risk through its CIA coverage alone and one covered
C26_Witness ==
    \E fw \in DOMAIN layer3_results :
        /\ layer3_results[fw].source = "rule_based"
        /\ cia_data.kind = "full"
        /\ \E p, q, r \in PillarSet :
              /\ layer1_results[fw].cia_structural_flags[p] # <<>>
              /\ layer1_results[fw].cia_structural_flags[q] = <<>>
              /\ cia_data.cia_coverage[q] < 2500
              /\ layer3_results[fw].cia_impact_summary[q].status = "at_risk"
              /\ layer3_results[fw].cia_impact_summary[r].status = "covered"

\* C27: for every framework processed by run, on every Layer-2 and Layer-3
\* path, structural_score, semantic_score and reasoning_confidence lie
\* between 0 and 100, and so do cci_scores[fw] and overall_cci.
C27_ScoresInRange ==
    /\ \A fw \in DOMAIN layer1_results : layer1_results[fw].structural_score \in 0..10000
    /\ \A fw \in DOMAIN layer2_results : layer2_results[fw].semantic_score \in 0..10000
    /\ \A fw \in DOMAIN layer3_results : layer3_results[fw].reasoning_confidence \in 0..10000
    /\ \A fw \in DOMAIN cci_scores : cci_scores[fw] \in 0..10000
    /\ pc = "done" =>
          /\ report.hybrid_analysis.overall_cci \in 0..10000
          /\ \A fw \in DOMAIN report.hybrid_analysis.cci_scores :
                report.hybrid_analysis.cci_scores[fw] \in 0..10000

\* C27 witness: a report over two frameworks, one with the keyword fallback
\* of Layer 2 and an LLM answer whose confidence above 100 was cut to 100,
\* the other with the fixed confidence of the LLM-failure fallback
C27_Witness ==
    /\ pc = "done"
    /\ report.hybrid_analysis.overall_cci > 0
    /\ \E fw, other \in DOMAIN cci_scores :
          /\ layer2_results[fw].note
          /\ layer3_results[fw].source = "llm"
          /\ layer3_results[fw].reasoning_confidence = 10000
          /\ llm_calls[fw] = "answered"
          /\ layer3_results[other].source = "rule_based_fallback"

\* C28: on the keyword-fallback path of analyze, strong_count, partial_count
\* and weak_count are non-negative counts of clauses and total_clauses is
\* the number of clauses passed in, the empty clause list included.
C28_FallbackCountsClauses ==
    \A fw \in DOMAIN layer2_results :
        layer2_results[fw].note =>
            /\ layer2_results[fw].total_clauses = Len(clauses)
            /\ \A n \in {layer2_results[fw].strong_count, layer2_results[fw].partial_count,
                         layer2_results[fw].weak_count} : n \in 0..Len(clauses)

\* what the fallback path keeps: the three counts add up to total_clauses,
\* which is the number of clauses or 1 for the empty list, and
\* partial_count is the number of matched controls
C28_FallbackCountsControls ==
    \A fw \in DOMAIN layer2_results :
        layer2_results[fw].note =>
            /\ layer2_results[fw].total_clauses = Max(Len(clauses), 1)
            /\ layer2_results[fw].strong_count = 0
            /\ layer2_results[fw].partial_count = layer2_results[fw].matched_controls
            /\ layer2_results[fw].partial_count + layer2_results[fw].weak_count
                 = layer2_results[fw].total_clauses

\* C29: on the embedding path the clause-level and the control-level results
\* agree: matched_controls > 0 exactly when strong_count + partial_count > 0,
\* the best-match control of a strong or partial clause is not among
\* missing_controls, and matched_controls + len(missing_controls) is
\* total_controls.
C29_ClauseAndControlLevelsAgree ==
    \A fw \in DOMAIN layer2_results :
        (EmbeddingPath(fw) /\ clauses # <<>>) =>
            LET r == layer2_results[fw]
                missing_ids == {r.missing_controls[i].control_id : i \in DOMAIN r.missing_controls}
            IN  /\ r.matched_controls > 0 <=> r.strong_count + r.partial_count > 0
                /\ \A i \in DOMAIN r.clause_matches :
                      r.clause_matches[i].compliance_level \in {"strong", "partial"}
                          => r.clause_matches[i].best_control_id \notin missing_ids
                /\ r.matched_controls + Len(r.missing_controls) = r.total_controls

\* C29 witness: an embedding result of three clauses with a strong, a
\* partial and a weak clause, a matched control that is the best match of a
\* later clause only, and a missing control
C29_Witness ==
    \E fw \in DOMAIN layer2_results :
        LET r == layer2_results[fw]
        IN  /\ EmbeddingPath(fw) /\ clauses # <<>>
            /\ r.strong_count > 0 /\ r.partial_count > 0 /\ r.weak_count > 0
            /\ r.matched_controls >= 2 /\ r.missing_controls # <<>>
            /\ r.clause_matches[1].best_control_id # r.clause_matches[2].best_control_id

\* the clauses of the document that hold no CIA keyword at all
NoKeywordClauses == {i \in DOMAIN clauses : \A p \in PillarSet : CiaScores(ClauseText(clauses[i]))[p] = 0}

C30_MixedDocument ==
    /\ cia_analysis.kind = "full"
    /\ NoKeywordClauses # {} /\ NoKeywordClauses # DOMAIN clauses
    /\ cia_analysis.cia_distribution["integrity"] > 0
    /\ cia_analysis.cia_distribution["availability"] > 0

\* what analyze(clauses, framework) returns when it runs alone on a fresh
\* engine, with the model loading or failing to load
AloneResults(cs, fw) == {SemanticAnalyze(cs, fw, "None", <<>>, ok).result : ok \in BOOLEAN}

\* C21: with several analyze calls running at once from an unpopulated
\* singleton, model and cache, in every interleaving each cache entry holds
\* its own framework's control embeddings, no call computes similarities
\* against another framework's embeddings or against embeddings whose length
\* is not that of its control list, and every call returns what it would
\* return when run alone (so none of them raises).
C21_ConcurrentFirstAccessSafe ==
    /\ \A e \in DOMAIN instances : \A fw \in DOMAIN instances[e]._framework_embeddings :
          instances[e]._framework_embeddings[fw] = EncodeControls(fw)
    /\ \A t \in Threads :
          /\ calls[t].pc = "encode_clauses" =>
                /\ calls[t].control_embeddings.of = calls[t].framework
                /\ calls[t].control_embeddings.len = Len(FRAMEWORK_CONTROLS(calls[t].framework))
          /\ calls[t].pc # "raised"
          /\ calls[t].pc = "returned" =>
                calls[t].result \in AloneResults(calls[t].clauses, calls[t].framework)

\* C21 in a deployment where every load attempt ends as embed_loadable says:
\* the result of a call is the one it returns alone in that deployment
C21_SafeWhenLoadsAgree ==
    /\ C21_ConcurrentFirstAccessSafe
    /\ \A t \in Threads :
          calls[t].pc = "returned" =>
              calls[t].result = SemanticAnalyze(calls[t].clauses, calls[t].framework,
                                                "None", <<>>, embed_loadable).result

\* two engines exist and two calls have returned, one from each engine
C21_TwoEngines ==
    /\ Len(instances) = 2
    /\ \A t \in Threads : calls[t].pc = "returned"
    /\ calls[1].self # calls[2].self
====
